---- MODULE Spec2Model ----
(***************************************************************************)
(* JFlow: Workflow (src/jflow/workflow.py) and Depends                     *)
(* (src/jflow/depends.py).  A Workflow is built from its end goals by      *)
(* _build_deps, and run() seeds a cache from the initial inputs, counts    *)
(* the unsatisfied dependencies of every function and dispatches the       *)
(* functions through _exec as asyncio tasks.                               *)
(*                                                                         *)
(* Functions (tasks of the graph) are the numbers 1..5; a program is the   *)
(* signature and name of each function plus the end goals handed to the    *)
(* constructor.  asyncio is cooperative: the code between two awaits of a  *)
(* coroutine is one action.                                                *)
(***************************************************************************)
EXTENDS Integers, Sequences, FiniteSets, TLC

\* ------------------------------------------------------------------ bounds
\* Stand-in for the interpreter's recursion limit (larger than any acyclic
\* chain of the programs below).
RecursionLimit == 7
\* Longest initial_inputs sequence handed to run.
MaxInputs == 2
\* Number of distinct values an initial input may resolve to.
NumSeedVals == 1

\* --------------------------------------------------------------- helpers
Range(s) == {s[i] : i \in 1..Len(s)}

RECURSIVE SumSeq(_)
SumSeq(s) == IF s = <<>> THEN 0 ELSE Head(s) + SumSeq(Tail(s))

RECURSIVE Perms(_)
\* all orders in which the members of a set can be iterated
Perms(S) ==
  IF S = {} THEN {<<>>}
  ELSE UNION {{<<x>> \o p : p \in Perms(S \ {x})} : x \in S}

\* The loops below are folds F[0..n]; a step binds the value of F[i - 1]
\* through a one-element set, so that it is computed once per step.

\* dict assignment d[k] = v
Put(d, k, v) == [x \in DOMAIN d \cup {k} |-> IF x = k THEN v ELSE d[x]]

\* dict.pop(k)
Pop(d, k) == [x \in DOMAIN d \ {k} |-> d[x]]

\* ------------------------------------------------------ parameters, Depends
\* A parameter of a function, as _build_deps and _exec see it.
Required == [kind |-> "Required", dependency |-> 0, default |-> 0]
Literal(v) == [kind |-> "Literal", dependency |-> 0, default |-> v]
\* Depends(fn): a default that is a _DependsSentinel wrapping fn
Depends(fn) == [kind |-> "Injected", dependency |-> fn, default |-> 0]

\* ----------------------------------------------------------------- programs
\* src/test.py: create_person, create_congratulation, say_congratulation,
\* say_congratulation_twice; the goals are the two say_ functions.
TestProgram ==
  [sig |-> <<
      <<Required>>,
      <<Depends(1)>>,
      <<Depends(1), Depends(2)>>,
      <<Depends(1), Depends(2)>>,
      <<>> >>,
   name |-> <<"create_person", "create_congratulation", "say_congratulation",
              "say_congratulation_twice", "unused">>,
   end_goals |-> <<3, 4>>]

\* diamond: A; B(A); D(A); E(B, D)
DiamondProgram ==
  [sig |-> << <<>>, <<Depends(1)>>, <<Depends(1)>>, <<Depends(2), Depends(3)>>, <<>> >>,
   name |-> <<"A", "B", "D", "E", "unused">>,
   end_goals |-> <<4>>]

\* two unrelated chains A <- B and C <- D, goals declared as D, B, D
BranchesProgram ==
  [sig |-> << <<>>, <<Depends(1)>>, <<Literal(3)>>, <<Depends(3)>>, <<>> >>,
   name |-> <<"A", "B", "C", "D", "unused">>,
   end_goals |-> <<4, 2, 4>>]

\* A; B(A); A2; C(B, A2): a middle function B that has a producer
ChainProgram ==
  [sig |-> << <<>>, <<Depends(1)>>, <<>>, <<Depends(2), Depends(3)>>, <<>> >>,
   name |-> <<"A", "B", "A2", "C", "unused">>,
   end_goals |-> <<4>>]

\* A; Z(x, A) with a required parameter; Y(Z); the goals are Y and Z
MissingProgram ==
  [sig |-> << <<>>, <<Required, Depends(1)>>, <<Depends(2)>>, <<>>, <<>> >>,
   name |-> <<"A", "Z", "Y", "unused", "unused">>,
   end_goals |-> <<3, 2>>]

\* P; T(P, P): the same producer through two parameters; U(T, 3)
DupEdgeProgram ==
  [sig |-> << <<>>, <<Depends(1), Depends(1)>>, <<Depends(2), Literal(3)>>, <<>>, <<>> >>,
   name |-> <<"P", "T", "U", "unused", "unused">>,
   end_goals |-> <<3>>]

\* P; X; Q(X); T(P, P, Q, Q): two producers, each through two parameters
DupPairProgram ==
  [sig |-> << <<>>, <<>>, <<Depends(2)>>,
              <<Depends(1), Depends(1), Depends(3), Depends(3)>>, <<>> >>,
   name |-> <<"P", "X", "Q", "T", "unused">>,
   end_goals |-> <<4>>]

\* two functions that are both named load, and T(load, load')
SameNameProgram ==
  [sig |-> << <<>>, <<Literal(1)>>, <<Depends(1), Depends(2)>>, <<>>, <<>> >>,
   name |-> <<"load", "load", "T", "unused", "unused">>,
   end_goals |-> <<3>>]

\* X(Y); Y(X); G(X): a cycle below the goal
CycleProgram ==
  [sig |-> << <<Depends(2)>>, <<Depends(1)>>, <<Depends(1)>>, <<>>, <<>> >>,
   name |-> <<"X", "Y", "G", "unused", "unused">>,
   end_goals |-> <<3>>]

\* S(S): a function that injects itself, next to an acyclic goal A
SelfLoopProgram ==
  [sig |-> << <<>>, <<Depends(2)>>, <<>>, <<>>, <<>> >>,
   name |-> <<"A", "S", "unused", "unused", "unused">>,
   end_goals |-> <<1, 2>>]

Programs ==
  {TestProgram, DiamondProgram, BranchesProgram, ChainProgram, MissingProgram,
   DupEdgeProgram, DupPairProgram, SameNameProgram, CycleProgram,
   SelfLoopProgram}

Fns == 1..5

\* ------------------------------------------------------------- _build_deps
\* The producers a signature injects, in parameter order.
InjectedOf(params) ==
  LET F[i \in 0..Len(params)] ==
        IF i = 0 THEN <<>>
        ELSE IF params[i].kind = "Injected"
             THEN Append(F[i - 1], params[i].dependency)
             ELSE F[i - 1]
  IN F[Len(params)]

\* The state _build_deps works on: the dict self._deps (keys in insertion
\* order), how often each signature was inspected, and the error raised.
NewBuild ==
  [keys |-> <<>>, deps |-> [f \in {} |-> <<>>],
   inspected |-> [f \in Fns |-> 0], error |-> "none"]

RECURSIVE build_deps(_, _, _, _)
RECURSIVE build_params(_, _, _, _, _)

\* the loop of _build_deps over the parameters i.. of fn
build_params(sig, fn, i, depth, b) ==
  IF b.error # "none" \/ i > Len(sig[fn]) THEN b
  ELSE IF sig[fn][i].kind = "Injected"
       THEN build_params(sig, fn, i + 1, depth,
                         build_deps(sig, sig[fn][i].dependency, depth + 1, b))
       ELSE build_params(sig, fn, i + 1, depth, b)

\* _build_deps without the test "if fn in self._deps: return"
build_deps_NoMemo(sig, fn, depth, b) ==
  IF b.error # "none" THEN b
  ELSE IF depth > RecursionLimit THEN [b EXCEPT !.error = "RecursionError"]
  ELSE LET b1 == [b EXCEPT !.inspected[fn] = @ + 1]
           b2 == build_params(sig, fn, 1, depth, b1)
       IN IF b2.error # "none" THEN b2
          ELSE [b2 EXCEPT !.keys = Append(@, fn),
                          !.deps = Put(@, fn, InjectedOf(sig[fn]))]

build_deps(sig, fn, depth, b) ==
  IF b.error # "none" THEN b
  ELSE IF depth > RecursionLimit THEN [b EXCEPT !.error = "RecursionError"]
  ELSE IF fn \in DOMAIN b.deps THEN b
  ELSE LET b1 == [b EXCEPT !.inspected[fn] = @ + 1]
           b2 == build_params(sig, fn, 1, depth, b1)
       IN IF b2.error # "none" THEN b2
          ELSE [b2 EXCEPT !.keys = Append(@, fn),
                          !.deps = Put(@, fn, InjectedOf(sig[fn]))]

\* the loop of __init__ over the end goals
RECURSIVE build_goals(_, _, _)
build_goals(sig, goals, b) ==
  IF goals = <<>> THEN b
  ELSE build_goals(sig, Tail(goals), build_deps(sig, Head(goals), 1, b))

\* the reverse map of __init__: for fn, deps in _deps.items(): for d in deps:
\* _dependents[d].append(fn)
DependentsOf(keys, dps, d) ==
  LET Occ(fn) == LET G[i \in 0..Len(dps[fn])] ==
                       IF i = 0 THEN <<>>
                       ELSE IF dps[fn][i] = d THEN Append(G[i - 1], fn) ELSE G[i - 1]
                 IN G[Len(dps[fn])]
      F[k \in 0..Len(keys)] ==
        IF k = 0 THEN <<>> ELSE F[k - 1] \o Occ(keys[k])
  IN F[Len(keys)]

build_dependents(keys, dps) ==
  LET touched == UNION {Range(dps[fn]) : fn \in Range(keys)}
  IN [d \in touched |-> DependentsOf(keys, dps, d)]

\* --------------------------------------------------------------------- run
\* What an exception carries: its kind, the function it is about and, for a
\* missing required parameter, the position of the parameter.
NoError == [kind |-> "none", fn |-> 0, param |-> 0]
Exc(kind, fn, param) == [kind |-> kind, fn |-> fn, param |-> param]

\* The values an initial input may resolve to.
SeedVals == {90 + k : k \in 1..NumSeedVals}

\* An initial input is a coroutine object made by calling the function fn; it
\* resolves to val or raises.
Inputs == [fn : Fns, val : SeedVals, ok : BOOLEAN]

InputSeqs == UNION {[1..n -> Inputs] : n \in 0..MaxInputs}

\* The value a function body returns for its keyword arguments.
Body(fn, args) == 10 * fn + (SumSeq(args) % 10)

\* for fn in self._deps: if fn.__name__ == fn_name: ...; break
\* (0 when no key has the name)
MatchByName(keys, names, fn_name) ==
  LET F[i \in 0..Len(keys)] ==
        IF i = 0 THEN 0
        ELSE LET prev == F[i - 1]
             IN IF prev # 0 THEN prev
                ELSE IF names[keys[i]] = fn_name THEN keys[i] ELSE 0
  IN F[Len(keys)]

\* Step 1 of run after gather returned: the loop over zip(initial_inputs,
\* results).  Gives the cache and the number of writes of each key.
SeedCache(inputs, keys, names) ==
  LET F[i \in 0..Len(inputs)] ==
        IF i = 0 THEN [cache |-> [f \in {} |-> 0], writes |-> [f \in Fns |-> 0]]
        ELSE CHOOSE next \in
               {IF fn = 0 THEN prev
                ELSE [cache |-> Put(prev.cache, fn, inputs[i].val),
                      writes |-> [prev.writes EXCEPT ![fn] = @ + 1]] :
                  prev \in {F[i - 1]},
                  fn \in {MatchByName(keys, names, names[inputs[i].fn])}} : TRUE
  IN F[Len(inputs)]

\* CountMissing that counts every dependency, cached or not
CountMissing_IgnoresCache(ds, c) == Len(ds)

\* Step 2 of run: sum(1 for d in deps if d not in cache)
CountMissing(ds, c) == Cardinality({i \in 1..Len(ds) : ds[i] \notin DOMAIN c})

\* asyncio.create_task(self._exec(fn, cache)); running[fn] = task;
\* task_to_fn[task] = fn.  A task is its position in tasks; seen records the
\* keys of the cache at the moment of the launch.
Launch(st, fn) ==
  LET id == Len(st.tasks) + 1
  IN [st EXCEPT
        !.tasks = Append(@, [fn |-> fn, state |-> "created", args |-> <<>>,
                             result |-> 0, exc |-> NoError,
                             seen |-> DOMAIN st.cache]),
        !.running = Put(@, fn, id),
        !.task_to_fn = Put(@, id, fn)]

\* InitialDispatch that stops after the first function it launched
InitialDispatch_FirstOnly(st, keys) ==
  LET F[i \in 0..Len(keys)] ==
        IF i = 0 THEN st
        ELSE IF /\ F[i - 1].tasks = <<>>
                /\ F[i - 1].rem_deps[keys[i]] = 0
                /\ keys[i] \notin DOMAIN F[i - 1].cache
             THEN Launch(F[i - 1], keys[i])
             ELSE F[i - 1]
  IN F[Len(keys)]

\* Step 3 of run: for fn, count in rem_deps.items(): if count == 0 and fn not
\* in cache: launch
InitialDispatch(st, keys) ==
  LET F[i \in 0..Len(keys)] ==
        IF i = 0 THEN st
        ELSE CHOOSE next \in
               {IF prev.rem_deps[keys[i]] = 0 /\ keys[i] \notin DOMAIN prev.cache
                THEN Launch(prev, keys[i])
                ELSE prev : prev \in {F[i - 1]}} : TRUE
  IN F[Len(keys)]

\* dependents.get(fn, [])
DependentsGet(dpts, fn) == IF fn \in DOMAIN dpts THEN dpts[fn] ELSE <<>>

\* NotifyDependents without the test of the count: a dependent is launched by
\* every producer that completes
NotifyDependents_NoCountTest(st, ds) ==
  LET F[i \in 0..Len(ds)] ==
        IF i = 0 THEN st
        ELSE Launch([F[i - 1] EXCEPT !.rem_deps[ds[i]] = @ - 1], ds[i])
  IN F[Len(ds)]

\* NotifyDependents that only counts and never launches
NotifyDependents_NoLaunch(st, ds) ==
  LET F[i \in 0..Len(ds)] ==
        IF i = 0 THEN st
        ELSE [F[i - 1] EXCEPT !.rem_deps[ds[i]] = @ - 1]
  IN F[Len(ds)]

\* NotifyDependents that tests the count before it decrements it
NotifyDependents_TestBeforeDecrement(st, ds) ==
  LET F[i \in 0..Len(ds)] ==
        IF i = 0 THEN st
        ELSE CHOOSE next \in
               {IF prev.rem_deps[ds[i]] = 0
                THEN Launch([prev EXCEPT !.rem_deps[ds[i]] = @ - 1], ds[i])
                ELSE [prev EXCEPT !.rem_deps[ds[i]] = @ - 1] :
                  prev \in {F[i - 1]}} : TRUE
  IN F[Len(ds)]

\* The inner loop of step 4: for dep_fn in self._dependents.get(fn, []):
\* rem_deps[dep_fn] -= 1; if rem_deps[dep_fn] == 0: launch
NotifyDependents(st, ds) ==
  LET F[i \in 0..Len(ds)] ==
        IF i = 0 THEN st
        ELSE CHOOSE next \in
               {IF s1.rem_deps[ds[i]] = 0 THEN Launch(s1, ds[i]) ELSE s1 :
                  s1 \in {[F[i - 1] EXCEPT !.rem_deps[ds[i]] = @ - 1]}} : TRUE
  IN F[Len(ds)]

\* HandleDone that stores nothing for a failed task and goes on, instead of
\* letting task.result() raise
HandleDone_SwallowsFailure(st, id) ==
  IF st.error # NoError THEN st
  ELSE LET fn == st.task_to_fn[id]
           s1 == [st EXCEPT !.task_to_fn = Pop(@, id), !.batch = Append(@, id)]
       IN IF st.tasks[id].exc # NoError
          THEN [s1 EXCEPT !.running = Pop(@, fn)]
          ELSE LET s2 == [s1 EXCEPT !.cache = Put(@, fn, st.tasks[id].result),
                                    !.writes[fn] = @ + 1]
               IN NotifyDependents([s2 EXCEPT !.running = Pop(@, fn)],
                                   DependentsGet(st.dependents, fn))

\* HandleDone that reads self._dependents[fn]: indexing the defaultdict adds
\* the key fn when fn has no dependents
HandleDone_IndexesDependents(st, id) ==
  IF st.error # NoError THEN st
  ELSE LET fn == st.task_to_fn[id]
           s1 == [st EXCEPT !.task_to_fn = Pop(@, id), !.batch = Append(@, id)]
       IN IF st.tasks[id].exc # NoError
          THEN [s1 EXCEPT !.error = st.tasks[id].exc]
          ELSE LET s2 == [s1 EXCEPT !.cache = Put(@, fn, st.tasks[id].result),
                                    !.writes[fn] = @ + 1]
               IN IF fn \notin DOMAIN s2.running
                  THEN [s2 EXCEPT !.error = Exc("KeyError", fn, 0)]
                  ELSE NotifyDependents(
                         [s2 EXCEPT !.running = Pop(@, fn),
                                    !.dependents =
                                      IF fn \in DOMAIN @ THEN @ ELSE Put(@, fn, <<>>)],
                         DependentsGet(st.dependents, fn))

\* The body of "for task in done" for one task.
HandleDone(st, id) ==
  IF st.error # NoError THEN st
  ELSE LET fn == st.task_to_fn[id]
           s1 == [st EXCEPT !.task_to_fn = Pop(@, id), !.batch = Append(@, id)]
       IN IF st.tasks[id].exc # NoError
          THEN [s1 EXCEPT !.error = st.tasks[id].exc]
          ELSE LET s2 == [s1 EXCEPT !.cache = Put(@, fn, st.tasks[id].result),
                                    !.writes[fn] = @ + 1]
               IN IF fn \notin DOMAIN s2.running
                  THEN [s2 EXCEPT !.error = Exc("KeyError", fn, 0)]
                  ELSE NotifyDependents([s2 EXCEPT !.running = Pop(@, fn)],
                                        DependentsGet(st.dependents, fn))

\* "for task in done", in the order the set done is iterated
HandleBatch(st, order) ==
  LET F[i \in 0..Len(order)] ==
        IF i = 0 THEN st
        ELSE CHOOSE next \in
               {HandleDone(prev, order[i]) : prev \in {F[i - 1]}} : TRUE
  IN F[Len(order)]

\* Collect that walks the end goals backwards
Collect_Reversed(c, goals) ==
  IF \E i \in 1..Len(goals) : goals[i] \notin DOMAIN c
  THEN [error |-> Exc("KeyError", goals[1], 0), result |-> <<>>]
  ELSE [error |-> NoError,
        result |-> [i \in 1..Len(goals) |-> c[goals[Len(goals) + 1 - i]]]]

\* Step 5 of run: tuple(cache[fn] for fn in self.end_goals)
Collect(c, goals) ==
  IF \E i \in 1..Len(goals) : goals[i] \notin DOMAIN c
  THEN [error |-> Exc("KeyError",
                      goals[CHOOSE i \in 1..Len(goals) :
                              /\ goals[i] \notin DOMAIN c
                              /\ \A j \in 1..(i - 1) : goals[j] \in DOMAIN c], 0),
        result |-> <<>>]
  ELSE [error |-> NoError, result |-> [i \in 1..Len(goals) |-> c[goals[i]]]]

\* _exec up to the call of the function: the keyword arguments in parameter
\* order, or the exception raised while gathering them.
ExecArgs(params, c, fn) ==
  LET F[i \in 0..Len(params)] ==
        IF i = 0 THEN [args |-> <<>>, exc |-> NoError]
        ELSE IF F[i - 1].exc # NoError THEN F[i - 1]
        ELSE IF params[i].kind = "Injected"
             THEN IF params[i].dependency \in DOMAIN c
                  THEN [F[i - 1] EXCEPT !.args = Append(@, c[params[i].dependency])]
                  ELSE [F[i - 1] EXCEPT !.exc = Exc("KeyError", params[i].dependency, 0)]
        ELSE IF params[i].kind = "Literal"
             THEN [F[i - 1] EXCEPT !.args = Append(@, params[i].default)]
        ELSE [F[i - 1] EXCEPT !.exc = Exc("MissingParam", fn, i)]
  IN F[Len(params)]

\* ------------------------------------------------------------------- state
VARIABLES
  program,        \* the functions and the end goals given to Workflow(...)
  pc,             \* "new", "built", "build_failed", "seeding", "waiting",
                  \* "returned", "failed"
  deps_keys,      \* keys of self._deps in insertion order
  deps,           \* self._deps
  dependents,     \* self._dependents
  inspected,      \* number of inspect.signature calls of _build_deps per function
  initial_inputs, \* the argument of run
  pending,        \* positions of initial_inputs that gather still awaits
  cache,          \* cache of run
  rem_deps,       \* rem_deps of run
  running,        \* running of run: function -> task
  task_to_fn,     \* task_to_fn of run: task -> function
  tasks,          \* the asyncio tasks created by run, in creation order
  writes,         \* number of assignments cache[fn] = ... per function
  wakeups,        \* number of times asyncio.wait has returned
  batch,          \* the tasks the last wake-up handled, in the order of
                  \* "for task in done"
  result,         \* the tuple run returned
  error,          \* the exception that ended __init__ or run
  other           \* the locals of a second call of run on the same Workflow,
                  \* while the event loop runs the first

deps_vars == <<program, deps_keys, deps, inspected>>
graph_vars == <<deps_vars, dependents>>
run_vars == <<initial_inputs, pending, cache, rem_deps, running, task_to_fn,
              tasks, writes, wakeups, batch, result>>
vars == <<graph_vars, pc, run_vars, error, other>>

EmptyDict == [f \in {} |-> 0]

\* the locals of a call of run that has not started
NotCalled ==
  [pc |-> "built", initial_inputs |-> <<>>, pending |-> {}, cache |-> EmptyDict,
   rem_deps |-> EmptyDict, running |-> EmptyDict, task_to_fn |-> EmptyDict,
   tasks |-> <<>>, writes |-> [f \in Fns |-> 0], wakeups |-> 0, batch |-> <<>>,
   result |-> <<>>, error |-> NoError]

Init ==
  /\ program \in Programs
  /\ pc = "new"
  /\ deps_keys = <<>>
  /\ deps = [f \in {} |-> <<>>]
  /\ dependents = [f \in {} |-> <<>>]
  /\ inspected = [f \in Fns |-> 0]
  /\ initial_inputs = <<>>
  /\ pending = {}
  /\ cache = EmptyDict
  /\ rem_deps = EmptyDict
  /\ running = EmptyDict
  /\ task_to_fn = EmptyDict
  /\ tasks = <<>>
  /\ writes = [f \in Fns |-> 0]
  /\ wakeups = 0
  /\ batch = <<>>
  /\ result = <<>>
  /\ error = NoError
  /\ other = NotCalled

\* Workflow.__init__
Construct ==
  /\ pc = "new"
  /\ LET b == build_goals(program.sig, program.end_goals, NewBuild)
     IN IF b.error # "none"
        THEN /\ pc' = "build_failed"
             /\ error' = Exc(b.error, 0, 0)
             /\ inspected' = b.inspected
             /\ UNCHANGED <<deps_keys, deps, dependents>>
        ELSE /\ pc' = "built"
             /\ deps_keys' = b.keys
             /\ deps' = b.deps
             /\ dependents' = build_dependents(b.keys, b.deps)
             /\ inspected' = b.inspected
             /\ UNCHANGED error
  /\ UNCHANGED <<program, run_vars, other>>

\* run from "while running:" on: block in asyncio.wait while a task is in
\* flight, otherwise return the results of the end goals (or raise KeyError).
WaitOrReturn(st) ==
  IF st.error # NoError
  THEN /\ pc' = "failed"
       /\ error' = st.error
       /\ result' = <<>>
  ELSE IF DOMAIN st.running # {}
  THEN /\ pc' = "waiting"
       /\ UNCHANGED <<error, result>>
  ELSE LET r == Collect(st.cache, program.end_goals)
       IN /\ pc' = IF r.error = NoError THEN "returned" ELSE "failed"
          /\ error' = r.error
          /\ result' = r.result

Commit(st) ==
  /\ cache' = st.cache
  /\ rem_deps' = st.rem_deps
  /\ running' = st.running
  /\ task_to_fn' = st.task_to_fn
  /\ tasks' = st.tasks
  /\ writes' = st.writes
  /\ batch' = st.batch
  /\ dependents' = st.dependents
  /\ WaitOrReturn(st)

\* Steps 1 (after gather), 2 and 3 of run, up to the first asyncio.wait.
Schedule(inputs) ==
  \E seeded \in {SeedCache(inputs, deps_keys, program.name)} :
    \E st0 \in {[cache |-> seeded.cache, writes |-> seeded.writes,
                 rem_deps |-> [fn \in DOMAIN deps |->
                                 CountMissing(deps[fn], seeded.cache)],
                 running |-> EmptyDict, task_to_fn |-> EmptyDict,
                 tasks |-> <<>>, batch |-> <<>>, error |-> NoError,
                 dependents |-> dependents]} :
      \E st \in {InitialDispatch(st0, deps_keys)} : Commit(st)

\* run(initial_inputs) up to its first await
Run(inputs) ==
  /\ pc = "built"
  /\ initial_inputs' = inputs
  /\ IF inputs # <<>>
     THEN /\ pc' = "seeding"
          /\ pending' = DOMAIN inputs
          /\ UNCHANGED <<cache, rem_deps, running, task_to_fn, tasks, writes,
                         batch, result, error, dependents>>
     ELSE /\ pending' = {}
          /\ Schedule(inputs)
  /\ UNCHANGED <<deps_vars, wakeups, other>>

\* one of the initial inputs resolves or raises; gather keeps the first
\* exception
InputDone(i) ==
  /\ pc = "seeding"
  /\ i \in pending
  /\ pending' = pending \ {i}
  /\ error' = IF ~initial_inputs[i].ok /\ error = NoError
              THEN Exc("InputFailure", initial_inputs[i].fn, 0)
              ELSE error
  /\ UNCHANGED <<graph_vars, pc, initial_inputs, cache, rem_deps, running,
                 task_to_fn, tasks, writes, wakeups, batch, result, other>>

\* run resumes from "await asyncio.gather(...)" with an exception
GatherRaises ==
  /\ pc = "seeding"
  /\ error # NoError
  /\ pc' = "failed"
  /\ UNCHANGED <<graph_vars, run_vars, error, other>>

\* GatherReturns that resumes as soon as one input has resolved
GatherReturns_FirstCompleted ==
  /\ pc = "seeding"
  /\ pending # DOMAIN initial_inputs
  /\ error = NoError
  /\ Schedule(initial_inputs)
  /\ UNCHANGED <<deps_vars, initial_inputs, pending, wakeups, other>>

\* run resumes from "await asyncio.gather(...)" with the results
GatherReturns ==
  /\ pc = "seeding"
  /\ pending = {}
  /\ error = NoError
  /\ Schedule(initial_inputs)
  /\ UNCHANGED <<deps_vars, initial_inputs, pending, wakeups, other>>

\* the first step of the task id: _exec gathers the arguments from the cache
\* and calls the function, or raises
ExecStart(id) ==
  /\ pc = "waiting"
  /\ tasks[id].state = "created"
  /\ LET a == ExecArgs(program.sig[tasks[id].fn], cache, tasks[id].fn)
     IN tasks' = [tasks EXCEPT ![id] =
                    IF a.exc # NoError
                    THEN [@ EXCEPT !.state = "done", !.exc = a.exc]
                    ELSE [@ EXCEPT !.state = "awaiting", !.args = a.args]]
  /\ UNCHANGED <<graph_vars, pc, initial_inputs, pending, cache, rem_deps,
                 running, task_to_fn, writes, wakeups, batch, result, error,
                 other>>

\* the function called by the task id returns or raises
BodyDone(id, ok) ==
  /\ pc = "waiting"
  /\ tasks[id].state = "awaiting"
  /\ tasks' = [tasks EXCEPT ![id] =
                 IF ok
                 THEN [@ EXCEPT !.state = "done", !.result = Body(tasks[id].fn, tasks[id].args)]
                 ELSE [@ EXCEPT !.state = "done", !.exc = Exc("TaskFailure", tasks[id].fn, 0)]]
  /\ UNCHANGED <<graph_vars, pc, initial_inputs, pending, cache, rem_deps,
                 running, task_to_fn, writes, wakeups, batch, result, error,
                 other>>

\* run resumes from asyncio.wait with the tasks that are done and handles
\* them in some order, up to the next asyncio.wait, the return or the raise.
\* Every task created before run blocked has taken its first step by then.
Wake ==
  /\ pc = "waiting"
  /\ \A id \in 1..Len(tasks) : tasks[id].state # "created"
  /\ wakeups' = wakeups + 1
  /\ LET done == {running[fn] : fn \in {f \in DOMAIN running :
                                          tasks[running[f]].state = "done"}}
     IN /\ done # {}
        /\ \E order \in Perms(done) :
             \E st \in {HandleBatch([cache |-> cache, writes |-> writes,
                                    rem_deps |-> rem_deps, running |-> running,
                                    task_to_fn |-> task_to_fn, tasks |-> tasks,
                                    batch |-> <<>>, error |-> NoError,
                                    dependents |-> dependents],
                                   order)} :
               Commit(st)
  /\ UNCHANGED <<deps_vars, initial_inputs, pending, other>>

Next ==
  \/ Construct
  \/ \E inputs \in InputSeqs : Run(inputs)
  \/ \E i \in 1..MaxInputs : InputDone(i)
  \/ GatherRaises
  \/ GatherReturns
  \/ \E id \in 1..Len(tasks) : ExecStart(id)
  \/ \E id \in 1..Len(tasks), ok \in BOOLEAN : BodyDone(id, ok)
  \/ Wake

Spec == Init /\ [][Next]_vars

\* ------------------------------------------ two calls of run on one Workflow
\* the locals of the call the event loop is running
Current ==
  [pc |-> pc, initial_inputs |-> initial_inputs, pending |-> pending,
   cache |-> cache, rem_deps |-> rem_deps, running |-> running,
   task_to_fn |-> task_to_fn, tasks |-> tasks, writes |-> writes,
   wakeups |-> wakeups, batch |-> batch, result |-> result, error |-> error]

Resume(f) ==
  /\ pc' = f.pc
  /\ initial_inputs' = f.initial_inputs
  /\ pending' = f.pending
  /\ cache' = f.cache
  /\ rem_deps' = f.rem_deps
  /\ running' = f.running
  /\ task_to_fn' = f.task_to_fn
  /\ tasks' = f.tasks
  /\ writes' = f.writes
  /\ wakeups' = f.wakeups
  /\ batch' = f.batch
  /\ result' = f.result
  /\ error' = f.error

Callable == {"built", "seeding", "waiting", "returned", "failed"}

\* the event loop leaves one call of run at an await (or before its first
\* step, or after its end) and goes on with the other call; cache, rem_deps,
\* running and task_to_fn are locals of each call
Switch ==
  /\ pc \in Callable
  /\ other # Current
  /\ other' = Current
  /\ Resume(other)
  /\ UNCHANGED graph_vars

\* after a call of run has ended, run is called again on the same Workflow
Again ==
  /\ pc \in {"returned", "failed"}
  /\ Resume(NotCalled)
  /\ UNCHANGED <<graph_vars, other>>

\* the Workflows and entry points of the runs with two calls
RunsPrograms == {DupEdgeProgram, MissingProgram}
RunsInputSeqs == {<<>>} \cup {<<x>> : x \in Inputs}

RunsInit == Init /\ program \in RunsPrograms

RunsNext ==
  \/ Construct
  \/ \E inputs \in RunsInputSeqs : Run(inputs)
  \/ \E i \in 1..MaxInputs : InputDone(i)
  \/ GatherRaises
  \/ GatherReturns
  \/ \E id \in 1..Len(tasks) : ExecStart(id)
  \/ \E id \in 1..Len(tasks), ok \in BOOLEAN : BodyDone(id, ok)
  \/ Wake
  \/ Switch
  \/ Again

RunsSpec == RunsInit /\ [][RunsNext]_vars

\* ------------------------------------------------- vocabulary of the claims
\* functions that were passed to _exec, and how often
Launched == {tasks[id].fn : id \in 1..Len(tasks)}
LaunchCount(fn) == Cardinality({id \in 1..Len(tasks) : tasks[id].fn = fn})

\* direct and transitive producers of fn according to the signatures
DirectProducers(fn) ==
  {program.sig[fn][i].dependency :
     i \in {j \in 1..Len(program.sig[fn]) : program.sig[fn][j].kind = "Injected"}}

RECURSIVE ProducersWithin(_, _)
ProducersWithin(S, n) ==
  IF n = 0 THEN S
  ELSE ProducersWithin(S \cup UNION {DirectProducers(f) : f \in S}, n - 1)

TransitiveProducers(fn) == ProducersWithin(DirectProducers(fn), Cardinality(Fns))

\* the goals and everything reachable from them through Depends markers
Reachable == ProducersWithin(Range(program.end_goals), Cardinality(Fns))

HasCycle == \E f \in Reachable : f \in TransitiveProducers(f)

\* run is past its seeding step
Scheduled == pc \in {"waiting", "returned"} \/ (pc = "failed" /\ tasks # <<>>)

\* C1: within one run every function is passed to _exec at most once, also a
\* producer shared by several dependents.
C1_LaunchedAtMostOnce == \A fn \in Fns : LaunchCount(fn) <= 1

\* the diamond ran to its end: A was needed by B and D, E by nobody
C1_Witness ==
  /\ program = DiamondProgram
  /\ pc = "returned"
  /\ Launched = {1, 2, 3, 4}
  /\ LaunchCount(1) = 1

\* C2: when a function is launched, the results of all its direct and
\* transitive producers are in the cache.
C2_ProducersCachedAtLaunch ==
  \A id \in 1..Len(tasks) : TransitiveProducers(tasks[id].fn) \subseteq tasks[id].seen

\* C3: a normal return of run is a tuple with one element per declared end
\* goal, element i being the cached result of end_goals[i].
C3_ResultsInGoalOrder ==
  pc = "returned" =>
    /\ Len(result) = Len(program.end_goals)
    /\ \A i \in 1..Len(result) : result[i] = cache[program.end_goals[i]]

\* goals D, B, D: D appears twice, around the different result of B
C3_Witness ==
  /\ program = BranchesProgram
  /\ pc = "returned"
  /\ Len(result) = 3
  /\ result[1] = result[3]
  /\ result[1] # result[2]

\* the functions on a dependency cycle below the goals
OnCycle == {f \in Reachable : f \in TransitiveProducers(f)}

\* C4: a dependency cycle below the goals ends the construction with a build
\* error of its own that identifies a function of the cycle; run is never
\* reached and no function is invoked.
C4_CycleIsBuildError ==
  HasCycle =>
    /\ pc \in {"new", "build_failed"}
    /\ tasks = <<>>
    /\ pc = "build_failed" => (error.kind = "BuildError" /\ error.fn \in OnCycle)

\* C5: when the body of a launched function fails, run does not return
\* normally and no direct or transitive dependent of that function is ever
\* launched.
C5_NoDependentOfFailedTask ==
  \A a \in 1..Len(tasks) :
    tasks[a].exc.kind = "TaskFailure" =>
      /\ pc # "returned"
      /\ \A b \in 1..Len(tasks) : tasks[a].fn \notin TransitiveProducers(tasks[b].fn)

\* the functions of the graph that an initial input was stored for
SeededFns ==
  {MatchByName(deps_keys, program.name, program.name[initial_inputs[i].fn]) :
     i \in 1..Len(initial_inputs)} \ {0}

HasRequired(fn) == \E i \in 1..Len(program.sig[fn]) : program.sig[fn][i].kind = "Required"

\* C6: a function with a required parameter that was not seeded fails at its
\* dispatch with an error naming it and the parameter, its body not invoked;
\* no dependent of it is launched and run does not return normally.  Seeded
\* by an initial input, the function causes no such error.
C6_MissingArgument ==
  \A fn \in {f \in Fns : HasRequired(f)} :
    /\ \A a \in 1..Len(tasks) :
         (tasks[a].fn = fn /\ tasks[a].state # "created" /\ fn \notin SeededFns) =>
           /\ tasks[a].state = "done"
           /\ tasks[a].exc.kind = "MissingParam"
           /\ tasks[a].exc.fn = fn
           /\ program.sig[fn][tasks[a].exc.param].kind = "Required"
           /\ pc # "returned"
           /\ \A b \in 1..Len(tasks) : fn \notin DirectProducers(tasks[b].fn)
    /\ (Scheduled /\ fn \in SeededFns) =>
         /\ error # Exc("MissingParam", fn, error.param)
         /\ \A a \in 1..Len(tasks) : tasks[a].exc.kind = "MissingParam" => tasks[a].exc.fn # fn

\* the functions that are ready once the cache is seeded: no cache entry of
\* their own and every producer in the cache
ReadyAtStart ==
  {fn \in DOMAIN deps :
     fn \notin DOMAIN cache /\ \A i \in 1..Len(deps[fn]) : deps[fn][i] \in DOMAIN cache}

ValueSeed(inputs, keys) ==
  LET F[i \in 0..Len(inputs)] ==
        IF i = 0 THEN [f \in {} |-> 0]
        ELSE IF inputs[i].fn \in Range(keys)
             THEN Put(F[i - 1], inputs[i].fn, inputs[i].val)
             ELSE F[i - 1]
  IN F[Len(inputs)]

\* what step 3 launches from a cache c
DispatchedFrom(c) ==
  LET st0 == [cache |-> c, writes |-> [f \in Fns |-> 0],
              rem_deps |-> [fn \in DOMAIN deps |-> CountMissing(deps[fn], c)],
              running |-> EmptyDict, task_to_fn |-> EmptyDict, tasks |-> <<>>,
              error |-> NoError]
  IN DOMAIN InitialDispatch(st0, deps_keys).running

\* C8: entry points supplied as pending computations that resolve to v seed
\* the cache, and start the same functions, as the same entry points supplied
\* as the concrete values v.
C8_PendingSeedsLikeValue ==
  (pc = "waiting" /\ wakeups = 0) =>
    /\ cache = ValueSeed(initial_inputs, deps_keys)
    /\ DOMAIN running = DispatchedFrom(ValueSeed(initial_inputs, deps_keys))

\* C9: after a successful construction the keys of deps are the goals and
\* the functions reachable from them, each once, and each signature was
\* inspected once; an acyclic program is always constructed.
C9_DepsCoverReachableOnce ==
  /\ (pc # "new" /\ ~HasCycle) => pc # "build_failed"
  /\ pc \notin {"new", "build_failed"} =>
       /\ DOMAIN deps = Reachable
       /\ Range(deps_keys) = Reachable
       /\ Len(deps_keys) = Cardinality(Reachable)
       /\ \A f \in Fns : inspected[f] = IF f \in Reachable THEN 1 ELSE 0
       /\ \A f \in Reachable : Range(deps[f]) = DirectProducers(f)

\* the diamond is built: A has the two dependents B and D
C9_Witness ==
  /\ program = DiamondProgram
  /\ pc = "built"
  /\ Len(dependents[1]) = 2
  /\ inspected[1] = 1

\* C10: during one run every cache key is written at most once.
C10_CacheWriteOnce == \A f \in Fns : writes[f] <= 1

\* ---------------------------------------------------------------- fairness
\* The steps the event loop takes on its own once run was called: the
\* awaited computations finish, and a coroutine that can resume is resumed.
LoopStep ==
  \/ \E i \in 1..MaxInputs : InputDone(i)
  \/ GatherRaises
  \/ GatherReturns
  \/ \E id \in 1..Len(tasks) : ExecStart(id)
  \/ \E id \in 1..Len(tasks), ok \in BOOLEAN : BodyDone(id, ok)
  \/ Wake

FairSpec == Spec /\ WF_vars(LoopStep)

\* run raised because an initial input or a launched task did not complete
\* successfully
FailedByComputation ==
  /\ pc = "failed"
  /\ \/ error.kind = "InputFailure"
     \/ \E id \in 1..Len(tasks) : tasks[id].exc # NoError /\ tasks[id].exc = error

\* run returned with nothing in flight, every function of the graph that was
\* not seeded launched and cached, and every goal cached
ReturnedComplete ==
  /\ pc = "returned"
  /\ DOMAIN running = {}
  /\ \A id \in 1..Len(tasks) : tasks[id].state = "done"
  /\ \A fn \in DOMAIN deps \ SeededFns : fn \in Launched /\ fn \in DOMAIN cache
  /\ Range(program.end_goals) \subseteq DOMAIN cache

\* C11: once run is called on a constructed (acyclic) workflow it eventually
\* returns with the loop drained, every unseeded function launched and
\* cached and every goal cached, unless an initial input or a launched task
\* fails.
C11_RunReturns ==
  (pc \in {"seeding", "waiting"}) ~> (ReturnedComplete \/ FailedByComputation)

\* the graph of src/test.py, create_person seeded, ran to its end
C11_Witness ==
  /\ program = TestProgram
  /\ ReturnedComplete
  /\ SeededFns = {1}
  /\ Launched = {2, 3, 4}

\* positions of the parameters of fn that inject a producer without a cache
\* entry
MissingInjections(fn) ==
  {i \in 1..Len(program.sig[fn]) :
     /\ program.sig[fn][i].kind = "Injected"
     /\ program.sig[fn][i].dependency \notin DOMAIN cache}

\* C12 as stated: at the start of scheduling rem_deps[t] is the number of
\* distinct direct producers of t that have no cache entry.
C12_CountsDistinctProducers ==
  (Scheduled /\ wakeups = 0) =>
    \A t \in DOMAIN deps :
      rem_deps[t] = Cardinality(DirectProducers(t) \ DOMAIN cache)

\* C12 as amended: at the start of scheduling rem_deps[t] is the number of
\* injecting parameters of t whose producer has no cache entry; a producer
\* injected through k parameters counts k times.
C12_CountsInjectedParameters ==
  (Scheduled /\ wakeups = 0) =>
    /\ DOMAIN rem_deps = DOMAIN deps
    /\ \A t \in DOMAIN deps : rem_deps[t] = Cardinality(MissingInjections(t))

\* T(P, P) with P not seeded starts with the count 2
C12_Witness ==
  /\ program = DupEdgeProgram
  /\ pc = "waiting"
  /\ wakeups = 0
  /\ 1 \notin DOMAIN cache
  /\ rem_deps[2] = 2

\* how often the first k tasks of the batch o, as far as they succeeded, are
\* injected into d
Decrements(d, o, k) ==
  Cardinality({p \in (1..k) \X (1..Len(program.sig[d])) :
                 /\ tasks[o[p[1]]].exc = NoError
                 /\ program.sig[d][p[2]].kind = "Injected"
                 /\ program.sig[d][p[2]].dependency = tasks[o[p[1]]].fn})

\* the count of d reaches 0 while the batch o is handled
ReachesZero(d, o) == rem_deps[d] > 0 /\ Decrements(d, o, Len(o)) >= rem_deps[d]

\* the position in o of the completion that brings the count of d to 0
ZeroAt(d, o) ==
  CHOOSE k \in 1..Len(o) :
    /\ Decrements(d, o, k) >= rem_deps[d]
    /\ \A j \in 1..(k - 1) : Decrements(d, o, j) < rem_deps[d]

\* C13: in one wake-up of the scheduler a dependent whose count reaches 0
\* while a completion is handled is launched right then, seeing the cache
\* without the completions of the batch handled after it; a dependent whose
\* count stays above 0 (or was not above 0) is not launched.
C13_LaunchedWhenCountReachesZero ==
  [][wakeups' = wakeups + 1 =>
       \A d \in DOMAIN deps :
         LET new == {id \in (Len(tasks) + 1)..Len(tasks') : tasks'[id].fn = d}
         IN IF ReachesZero(d, batch')
            THEN /\ Cardinality(new) = 1
                 /\ \A id \in new :
                      tasks'[id].seen =
                        DOMAIN cache \cup
                        {tasks[batch'[i]].fn : i \in 1..ZeroAt(d, batch')}
            ELSE new = {}]_vars

\* A and C completed in one batch, A handled first: B was launched before
\* the result of C was stored
C13_Witness ==
  /\ program = BranchesProgram
  /\ Len(batch) = 2
  /\ tasks[batch[1]].fn = 1
  /\ tasks[batch[2]].fn = 3
  /\ 3 \in DOMAIN cache
  /\ \E id \in 1..Len(tasks) : tasks[id].fn = 2 /\ tasks[id].seen = {1}

\* C14: while run awaits the initial inputs no function is launched, no count
\* is computed and nothing is cached; scheduling starts only when every
\* input has resolved, with the seeded values in the cache; a failing input
\* makes run fail without any launch.
C14_SeedingPrecedesScheduling ==
  /\ pc = "seeding" => (tasks = <<>> /\ rem_deps = EmptyDict /\ cache = EmptyDict)
  /\ (tasks # <<>> \/ rem_deps # EmptyDict) =>
       /\ pending = {}
       /\ \A i \in 1..Len(initial_inputs) : initial_inputs[i].ok
       /\ SeededFns \subseteq DOMAIN cache
  /\ (\E i \in 1..Len(initial_inputs) : ~initial_inputs[i].ok /\ i \notin pending) =>
       (tasks = <<>> /\ pc \in {"seeding", "failed"})

\* two inputs are awaited at once: the second has resolved, the first has not
C14_Witness ==
  /\ pc = "seeding"
  /\ Len(initial_inputs) = 2
  /\ pending = {1}
  /\ error = NoError

\* C15: the value of every initial input is stored under the function the
\* caller made the input from, and under no other function, whatever the
\* names of the functions are.
C15_StoredUnderSuppliedTask ==
  (Scheduled /\ wakeups = 0) =>
    \A f \in DOMAIN deps :
      /\ f \in DOMAIN cache <=> \E i \in 1..Len(initial_inputs) : initial_inputs[i].fn = f
      /\ f \in DOMAIN cache =>
           \E i \in 1..Len(initial_inputs) :
             initial_inputs[i].fn = f /\ initial_inputs[i].val = cache[f]

\* an initial input or a launched task has failed
SomeFailure ==
  \/ \E i \in 1..Len(initial_inputs) : ~initial_inputs[i].ok /\ i \notin pending
  \/ \E id \in 1..Len(tasks) : tasks[id].exc # NoError

\* C16: run returns a tuple only if every initial input and every task it
\* launched completed successfully; after a failure run never returns
\* normally, and a run that ends in failure carries the exception.
C16_NoReturnAfterFailure ==
  /\ pc = "returned" =>
       /\ ~SomeFailure
       /\ pending = {}
       /\ \A id \in 1..Len(tasks) : tasks[id].state = "done"
  /\ pc = "failed" => error # NoError

\* a successful and a failed task completed in one batch, the successful one
\* handled first: run ended with the failure
C16_Witness ==
  /\ pc = "failed"
  /\ Len(batch) = 2
  /\ tasks[batch[1]].exc = NoError
  /\ tasks[batch[2]].exc.kind = "TaskFailure"
  /\ error = tasks[batch[2]].exc

\* what a call with the locals f got from its own entry points
OwnSeeds(f) ==
  IF f.pc \in {"built", "seeding"} \/ f.pending # {} THEN EmptyDict
  ELSE SeedCache(f.initial_inputs, deps_keys, program.name).cache

\* the tasks of the call with the locals f whose completion the call handled
\* without raising
OwnHandled(f) ==
  {id \in 1..Len(f.tasks) :
     /\ f.tasks[id].state = "done"
     /\ f.tasks[id].exc = NoError
     /\ id \notin DOMAIN f.task_to_fn}

\* how often fn occurs in s
Occurrences(s, fn) == Cardinality({i \in 1..Len(s) : s[i] = fn})

\* the locals f hold nothing but what the call itself seeded, launched and
\* counted: every cache entry is one of its entry points or the result of one
\* of its tasks, and every counter is the count over its own seeds less the
\* decrements made for its own handled tasks
OwnStateOnly(f) ==
  /\ \A fn \in DOMAIN f.cache :
       \/ fn \in DOMAIN OwnSeeds(f) /\ f.cache[fn] = OwnSeeds(f)[fn]
       \/ \E id \in OwnHandled(f) :
            f.tasks[id].fn = fn /\ f.tasks[id].result = f.cache[fn]
  /\ \A fn \in DOMAIN f.rem_deps :
       f.rem_deps[fn] =
         CountMissing(deps[fn], OwnSeeds(f))
           - SumSeq([id \in 1..Len(f.tasks) |->
                       IF id \in OwnHandled(f)
                       THEN Occurrences(DependentsGet(dependents, f.tasks[id].fn), fn)
                       ELSE 0])
  /\ f.pc = "returned" =>
       \A fn \in DOMAIN deps :
         fn \in DOMAIN OwnSeeds(f) \/ \E id \in OwnHandled(f) : f.tasks[id].fn = fn

\* C17: no step after construction changes the graph (program with its end
\* goals, deps, dependents), whether the run succeeds or fails, and of two
\* calls of run on one Workflow, one after the other or interleaved, each
\* starts from its own seeds only, keeps its own cache and counters, and
\* launches every function it did not seed itself.
C17_RunsShareOnlyTheGraph ==
  /\ [][pc # "new" => UNCHANGED <<program, deps_keys, deps, dependents>>]_vars
  /\ [](pc \in Callable => OwnStateOnly(Current) /\ OwnStateOnly(other))

\* two calls are in flight at once, each has handled a task of its own, and
\* their caches differ
C17_Witness ==
  /\ pc = "waiting"
  /\ other.pc = "waiting"
  /\ OwnHandled(Current) # {}
  /\ OwnHandled(other) # {}
  /\ cache # other.cache
  /\ wakeups > 0

\* the positions of the parameters of fn that inject a producer
InjectedPositions(fn) ==
  {i \in 1..Len(program.sig[fn]) : program.sig[fn][i].kind = "Injected"}

\* C18: when run has returned, every task that was called received, for each
\* producer P it injects, the value the cache holds under P at the end (so all
\* consumers of P received one value), also when P was seeded and has
\* producers that were not.
C18_ConsumersGetFinalValue ==
  pc = "returned" =>
    \A id \in 1..Len(tasks) :
      tasks[id].args # <<>> =>
        \A i \in InjectedPositions(tasks[id].fn) :
          tasks[id].args[i] = cache[program.sig[tasks[id].fn][i].dependency]

\* the producers that fn injects through two or more parameters
DuplicateProducers(fn) ==
  {p \in DirectProducers(fn) :
     Cardinality({i \in InjectedPositions(fn) :
                    program.sig[fn][i].dependency = p}) >= 2}

\* C19: a function that injects one producer P through two or more
\* parameters is launched at most once, P is in the cache whenever it is
\* launched, and a run that returns has launched it (or had it seeded).
C19_DuplicateEdgeLaunchedOnceWhenReady ==
  \A fn \in DOMAIN deps :
    DuplicateProducers(fn) # {} =>
      /\ LaunchCount(fn) <= 1
      /\ \A id \in 1..Len(tasks) :
           tasks[id].fn = fn => DuplicateProducers(fn) \subseteq tasks[id].seen
      /\ pc = "returned" =>
           fn \in DOMAIN OwnSeeds(Current) \/ LaunchCount(fn) = 1

\* C20: while run waits and when it has returned, the remaining count of
\* every function is not negative and is the number of entries of its deps
\* whose producer has no cache entry, for every set of entry points.
C20_CountIsMissingProducers ==
  pc \in {"waiting", "returned"} =>
    \A fn \in DOMAIN rem_deps :
      /\ rem_deps[fn] >= 0
      /\ rem_deps[fn] = CountMissing(deps[fn], cache)
====
